---- MODULE Spec2Model ----
(***************************************************************************)
(* Model of devcert's public API (src/src/index.ts) and of the domain      *)
(* certificate manager (src/src/certificates.ts).                          *)
(*                                                                         *)
(* The disk is modelled by the files the API reads and writes: the root CA *)
(* key and certificate, and one directory per stable domain path holding   *)
(* private-key.key, certificate-signing-request.csr and certificate.crt.   *)
(* A file's content is the serial number of the key it was derived from,   *)
(* so a regenerated key or certificate is a different value.               *)
(*                                                                         *)
(* Every API call is a JavaScript async function: the code between two     *)
(* awaits runs to completion, so each action below is one such synchronous *)
(* segment.  openssl is a blocking subprocess and may exit non-zero.       *)
(***************************************************************************)
EXTENDS Integers, Sequences, FiniteSets, TLC

\* ------------------------------------------------------------ bounds
NumCalls == 2      \* concurrent API calls in flight (ConcSpec)
MaxLen == 2        \* longest requested domain list
MaxKeys == 2       \* runs of generateDomainCertificate in one behaviour
MaxCA == 2         \* root CA keys written in one behaviour

\* ------------------------------------------------------------ constants
CertDays == 825    \* "-days 825"
KeyFileMode == 400 \* chmod(filename, 400)

NoFile == 0
Failure == -1

Procs == 1 .. NumCalls

\* Requested names: a valid domain, the special-cased "localhost" and a
\* wildcard, which is-valid-domain rejects with wildcard: false.
Domains == {"*.a.test", "a.test", "localhost"}

\* JavaScript's default sort order of the names (UTF-16 code units).
Rank(d) == CASE d = "*.a.test" -> 1 [] d = "a.test" -> 2 [] d = "localhost" -> 3

SeqsUpTo(S, n) == UNION {[1 .. k -> S] : k \in 1 .. n}

\* The requested lists: up to MaxLen names, each named once.
DomainLists == {L \in SeqsUpTo(Domains, MaxLen) :
                   \A i, j \in 1 .. Len(L) : L[i] = L[j] => i = j}

\* isValidDomain(domain, {subdomain: true, wildcard: false, allowUnicode: true,
\* topLevel: false}): a single label ("localhost") is not a domain, a wildcard
\* is refused.
isValidDomain(d) == d = "a.test"

\* The test of lines 76-79: the name passes when it is "localhost" or valid.
DomainAccepted(d) == d = "localhost" \/ isValidDomain(d)

\* A check of the first name only.
FirstAccepted(L) == DomainAccepted(L[1])

\* domains.forEach(...) throws on the first name that is not accepted.
AllAccepted(L) == \A i \in 1 .. Len(L) : DomainAccepted(L[i])

RECURSIVE Insert(_, _)
Insert(d, S) ==
    IF S = <<>> THEN <<d>>
    ELSE IF Rank(d) <= Rank(Head(S)) THEN <<d>> \o S
    ELSE <<Head(S)>> \o Insert(d, Tail(S))

RECURSIVE SortList(_)
SortList(L) == IF L = <<>> THEN <<>> ELSE Insert(Head(L), SortList(Tail(L)))

\* getStableDomainPath(domains): the sorted names, joined.
getStableDomainPath(L) == SortList(L)

\* A path that keeps the order of the request.
UnstableDomainPath(L) == L

\* The directory a call works in: getStableDomainPath at index.ts:84, :145,
\* :161, :179 and certificates.ts:24, :66.
DomainPathOf(L) == getStableDomainPath(L)

Paths == DomainLists

Range(L) == {L[i] : i \in 1 .. Len(L)}

\* Options of certificateFor (index.ts:25-36).  skipCertutilInstall only
\* reaches the trust-store installer; getCaPath takes the branch of line 111
\* as getCaBuffer does and adds the constant rootCACertPath to the result.
Options == [getCaBuffer : BOOLEAN, skipHostsFile : BOOLEAN, ui : BOOLEAN]

NoOptions == [getCaBuffer |-> FALSE, skipHostsFile |-> FALSE, ui |-> FALSE]

\* One domain directory: which files it holds.  key and csr hold the serial
\* of the private key, cert the serial of the key it certifies and certCA the
\* generation of the CA that signed it.
NoDir == [dir |-> FALSE, key |-> NoFile, keyMode |-> 0, csr |-> NoFile,
          cert |-> NoFile, certCA |-> NoFile]

NoReturn == [key |-> NoFile, cert |-> NoFile, certCA |-> NoFile, ca |-> NoFile,
             has |-> FALSE, days |-> 0]

IdleCall == [op |-> "none", pc |-> "idle", domains |-> <<>>, opts |-> NoOptions,
             ret |-> NoReturn, err |-> "none"]

VARIABLES
    platformSupported,  \* isMac || isLinux || isWindows
    opensslInstalled,   \* commandExists("openssl")
    ui,                 \* the shared UI hooks object: "default" or "custom"
    caKey,              \* rootCA.key: NoFile or the CA's generation
    caCert,             \* rootCA.crt: NoFile or the CA's generation
    caKeyReadable,      \* the current user can read rootCA.key
    trust,              \* CA generations present in the trust stores
    revoked,            \* the CA's revocation ledger: revoked key serials
    dom,                \* Paths -> the domain directory
    keySerial,          \* invocations of generateDomainCertificate so far
    caSerial,           \* root CA keys written so far
    hosts,              \* names mapped in the hosts file
    hostsPending,       \* hosts-file tasks started and not finished
    call,               \* Procs -> the API call the caller is in
    generateRuns,       \* Paths -> runs of generateDomainCertificate that have
                        \* not thrown, since the directory was last removed
    provisioned,        \* Paths whose certificate was issued and not removed since
    caKeyWide,          \* rootCA.key has its permissions relaxed for a subprocess
    scope               \* Procs -> "out", or the permissions of rootCA.key saved
                        \* when the caller entered the credentials scope

vars == <<platformSupported, opensslInstalled, ui, caKey, caCert, caKeyReadable,
          trust, revoked, dom, keySerial, caSerial, hosts, hostsPending, call,
          generateRuns, provisioned, caKeyWide, scope>>

envVars == <<platformSupported, opensslInstalled>>
caVars == <<caKey, caCert, caKeyReadable, trust, caSerial>>
domVars == <<dom, keySerial, generateRuns, provisioned>>
hostVars == <<hosts, hostsPending>>
scopeVars == <<caKeyWide, scope>>

\* exists(pathForDomain(domainPath, "certificate.crt"))
CertExists(P) == dom[P].cert # NoFile

Settled(p) == call[p].pc \in {"idle", "resolved", "rejected"}

\* What is remembered of the options of a call that has settled.
Settle(o) == [NoOptions EXCEPT !.skipHostsFile = o.skipHostsFile]

\* A call that has thrown, and one that has returned: what the caller sees.
Rejected(c, e) == [c EXCEPT !.pc = "rejected", !.err = e, !.opts = Settle(c.opts)]

Resolved(c, r) == [c EXCEPT !.pc = "resolved", !.ret = r, !.opts = Settle(c.opts)]

Reject(p, e) == call' = [call EXCEPT ![p] = Rejected(call[p], e)]

Goto(p, pc) == call' = [call EXCEPT ![p].pc = pc]

\* ------------------------------------------------------------ certificateFor

\* Hosts-file tasks started whatever the options say.
AlwaysStartHostsTasks(o, L) == hostsPending \cup Range(L)

\* Lines 125-129: unless skipHostsFile is set, one task per name is started
\* and none is awaited.
StartHostsTasks(o, L) ==
    IF o.skipHostsFile THEN hostsPending ELSE hostsPending \cup Range(L)

\* Lines 125-140: start the hosts-file tasks, read the key and the certificate
\* and, with getCaBuffer, the CA certificate.  readFile throws on a missing file.
Finish(c, p) ==
    LET L == c.domains
        o == c.opts
        d == dom[DomainPathOf(L)]
    IN  /\ hostsPending' = StartHostsTasks(o, L)
        /\ IF d.key = NoFile \/ d.cert = NoFile \/ (o.getCaBuffer /\ caCert = NoFile)
           THEN call' = [call EXCEPT ![p] = Rejected(c, "ENOENT")]
           ELSE call' = [call EXCEPT ![p] =
                    Resolved(c, [key |-> d.key, cert |-> d.cert, certCA |-> d.certCA,
                                 ca |-> IF o.getCaBuffer THEN caCert ELSE NoFile,
                                 has |-> FALSE, days |-> 0])]
        /\ UNCHANGED hosts

\* Bit i of a file mode given to chmod as a number: bit 8 is the owner's read
\* bit, bit 7 the owner's write bit, bits 5 to 0 those of group and others.
ModeBit(mode, i) == (mode \div 2 ^ i) % 2 = 1

\* generateKey(filename): openssl genrsa, then chmod(filename, 400).
generateKey(d, serial) == [d EXCEPT !.key = serial, !.keyMode = KeyFileMode]

\* openssl genrsa -out filename opens the file for writing: a key file left by
\* an earlier run must have the owner's write bit.
KeyWritable(d) == d.key = NoFile \/ ModeBit(d.keyMode, 7)

\* generateDomainCertificate up to its await (certificates.ts:24-40): mkdirp,
\* generateKey, openssl req -new; mkdirp and either openssl run may fail.
GenerateStart(c, p) ==
    LET P == DomainPathOf(c.domains)
        made == [dom[P] EXCEPT !.dir = TRUE]
        keyed == generateKey(made, keySerial + 1)
        requested == [keyed EXCEPT !.csr = keyed.key]
    IN  /\ keySerial < MaxKeys
        /\ keySerial' = keySerial + 1
        /\ \/ /\ call' = [call EXCEPT ![p] = Rejected(c, "mkdirp")]
              /\ UNCHANGED <<dom, generateRuns>>
           \/ /\ dom' = [dom EXCEPT ![P] = made]
              /\ call' = [call EXCEPT ![p] = Rejected(c, "openssl genrsa")]
              /\ UNCHANGED generateRuns
           \/ /\ KeyWritable(dom[P])
              /\ dom' = [dom EXCEPT ![P] = keyed]
              /\ call' = [call EXCEPT ![p] = Rejected(c, "openssl req")]
              /\ UNCHANGED generateRuns
           \/ /\ KeyWritable(dom[P])
              /\ dom' = [dom EXCEPT ![P] = requested]
              /\ call' = [call EXCEPT ![p] = [c EXCEPT !.pc = "sign"]]
              /\ generateRuns' = [generateRuns EXCEPT ![P] = @ + 1]
        /\ UNCHANGED <<provisioned, hostVars>>

\* A guard that never finds the cached certificate.
AlwaysGenerate(P) == TRUE

\* A guard that takes a private key for a finished certificate.
KeyAbsent(P) == dom[P].key = NoFile

\* The guard of line 118.
MustGenerate(P) == ~CertExists(P)

\* Lines 118-141, entered with no await since the CA was found in place or
\* after the await of the CA step.
AfterCA(c, p) ==
    IF MustGenerate(DomainPathOf(c.domains))
    THEN GenerateStart(c, p)
    ELSE Finish(c, p) /\ UNCHANGED domVars

\* A guard that never finds the CA key.
RootCAKeyNeverFound == TRUE

\* The guard of line 108: exists(rootCAKeyPath).
RootCAKeyMissing == caKey = NoFile

\* installCertificateAuthority up to its first await: the 2048-bit key and the
\* self-signed certificate are written to rootCA.key and rootCA.crt, the key
\* owner-read-only.  Either openssl run may fail, with no rollback.
InstallGenerate(c, p) ==
    LET g == caSerial + 1
    IN  /\ caSerial < MaxCA
        /\ \/ /\ call' = [call EXCEPT ![p] = Rejected(c, "openssl genrsa")]
              /\ UNCHANGED <<caKey, caCert, caKeyReadable, caSerial>>
           \/ /\ caKey' = g
              /\ caSerial' = g
              /\ caKeyReadable' = TRUE
              /\ call' = [call EXCEPT ![p] = Rejected(c, "openssl req -x509")]
              /\ UNCHANGED caCert
           \/ /\ caKey' = g
              /\ caSerial' = g
              /\ caCert' = g
              /\ caKeyReadable' = TRUE
              /\ call' = [call EXCEPT ![p] = [c EXCEPT !.pc = "install"]]
        /\ UNCHANGED trust

\* Object.assign(UI, options.ui), lines 91-93.
AssignUI(o) == IF o.ui THEN "custom" ELSE ui

\* certificateFor from its call to its first await (lines 74-123).
CertificateFor(p, L, o) ==
    LET c == [op |-> "certificateFor", pc |-> "start", domains |-> L, opts |-> o,
              ret |-> NoReturn, err |-> "none"]
    IN  /\ Settled(p)
        /\ UNCHANGED <<envVars, revoked, scopeVars>>
        /\ IF ~AllAccepted(L)
           THEN /\ call' = [call EXCEPT ![p] = Rejected(c, "invalid domain")]
                /\ UNCHANGED <<ui, caVars, domVars, hostVars>>
           ELSE /\ ui' = AssignUI(o)
                /\ IF ~platformSupported
                   THEN /\ call' = [call EXCEPT ![p] = Rejected(c, "platform")]
                        /\ UNCHANGED <<caVars, domVars, hostVars>>
                   ELSE IF ~opensslInstalled
                   THEN /\ call' = [call EXCEPT ![p] = Rejected(c, "no openssl")]
                        /\ UNCHANGED <<caVars, domVars, hostVars>>
                   ELSE IF RootCAKeyMissing
                   THEN /\ InstallGenerate(c, p)
                        /\ UNCHANGED <<domVars, hostVars>>
                   ELSE IF o.getCaBuffer
                   THEN /\ call' = [call EXCEPT ![p] = [c EXCEPT !.pc = "ensure"]]
                        /\ UNCHANGED <<caVars, domVars, hostVars>>
                   ELSE /\ AfterCA(c, p)
                        /\ UNCHANGED caVars

\* The rest of installCertificateAuthority: the certificate is added to the
\* system and browser trust stores; a failure is fatal and leaves the CA files.
InstallTrust(p) ==
    /\ call[p].pc = "install"
    /\ \/ /\ trust' = trust \cup {caCert}
          /\ Goto(p, "afterCA")
       \/ /\ Reject(p, "trust store")
          /\ UNCHANGED trust
    /\ UNCHANGED <<envVars, ui, caKey, caCert, caKeyReadable, caSerial, revoked, domVars,
                   hostVars, scopeVars>>

\* ensureCACertReadable: the key is made readable again, never regenerated.
EnsureReadable(p) ==
    /\ call[p].pc = "ensure"
    /\ caKeyReadable' = TRUE
    /\ Goto(p, "afterCA")
    /\ UNCHANGED <<envVars, ui, caKey, caCert, trust, caSerial, revoked, domVars, hostVars,
                   scopeVars>>

\* certificateFor resumes at line 118 after the await of line 110 or 115.
ResumeAfterCA(p) ==
    /\ call[p].pc = "afterCA"
    /\ AfterCA(call[p], p)
    /\ UNCHANGED <<envVars, ui, caVars, revoked, scopeVars>>

\* withCertificateAuthorityCredentials up to its callback: it throws when
\* there is no CA key to hand out; else the permissions of the key are saved
\* and relaxed so that the openssl subprocess can read it.
EnterScope(p, inside) ==
    IF caKey = NoFile
    THEN Reject(p, "ENOENT") /\ UNCHANGED scopeVars
    ELSE /\ scope' = [scope EXCEPT ![p] = IF caKeyWide THEN "wide" ELSE "narrow"]
         /\ caKeyWide' = TRUE
         /\ Goto(p, inside)

\* withCertificateAuthorityCredentials after its callback, returned or thrown:
\* the permissions saved on entry are restored.
LeaveScope(p) ==
    /\ caKeyWide' = (scope[p] = "wide")
    /\ scope' = [scope EXCEPT ![p] = "out"]

\* An openssl run on the CA key wherever the call stands.
CallbackAnywhere(p, waiting, inside) == call[p].pc \in {waiting, inside}

\* certificates.ts:40-41 and :69-70: openssl ca is run only in the callback
\* handed to withCertificateAuthorityCredentials, on the paths it is given.
Callback(p, waiting, inside) == call[p].pc = inside

\* generateDomainCertificate awaits withCertificateAuthorityCredentials
\* (certificates.ts:40).
AcquireForSigning(p) ==
    LET P == DomainPathOf(call[p].domains)
    IN  /\ call[p].pc = "sign"
        /\ EnterScope(p, "signing")
        /\ generateRuns' = IF caKey # NoFile THEN generateRuns
                           ELSE [generateRuns EXCEPT ![P] = IF @ > 0 THEN @ - 1 ELSE 0]
        /\ UNCHANGED <<envVars, ui, caVars, revoked, dom, keySerial, provisioned, hostVars>>

\* The callback of withCertificateAuthorityCredentials in
\* generateDomainCertificate (certificates.ts:40-59): openssl ca signs the CSR
\* file of the directory, as it is now, with the CA key and certificate.
SignCertificate(p) ==
    LET P == DomainPathOf(call[p].domains)
        d == dom[P]
    IN  /\ Callback(p, "sign", "signing")
        /\ \/ /\ caKey # NoFile /\ caCert # NoFile /\ d.csr # NoFile
              /\ dom' = [dom EXCEPT ![P] = [d EXCEPT !.cert = d.csr, !.certCA = caKey]]
              /\ provisioned' = provisioned \cup {P}
              /\ Goto(p, "finish")
              /\ UNCHANGED generateRuns
           \/ /\ Reject(p, "openssl ca")
              /\ generateRuns' = [generateRuns EXCEPT ![P] = IF @ > 0 THEN @ - 1 ELSE 0]
              /\ UNCHANGED <<dom, provisioned>>
        /\ LeaveScope(p)
        /\ UNCHANGED <<envVars, ui, caVars, revoked, keySerial, hostVars>>

\* certificateFor resumes at line 125 after the await of line 122.
Return(p) ==
    /\ call[p].pc = "finish"
    /\ Finish(call[p], p)
    /\ UNCHANGED <<envVars, ui, caVars, revoked, domVars, scopeVars>>

\* One fire-and-forget hosts-file task (line 127) runs: the name is appended
\* if missing; a failure is surfaced to nobody.
HostsTask(d) ==
    /\ d \in hostsPending
    /\ hostsPending' = hostsPending \ {d}
    /\ \/ hosts' = hosts \cup {d}
       \/ UNCHANGED hosts
    /\ UNCHANGED <<envVars, ui, caVars, revoked, domVars, call, scopeVars>>

\* ------------------------------------------------------------ the other calls

\* A test of the private key file in place of the certificate.
KeyExists(L) == dom[DomainPathOf(L)].key # NoFile

\* hasCertificateFor (lines 143-147).
hasCertificateFor(L) == CertExists(DomainPathOf(L))

HasCertificateFor(p, L) ==
    /\ Settled(p)
    /\ call' = [call EXCEPT ![p] =
            [op |-> "hasCertificateFor", pc |-> "resolved", domains |-> L,
             opts |-> NoOptions, ret |-> [NoReturn EXCEPT !.has = hasCertificateFor(L)],
             err |-> "none"]]
    /\ UNCHANGED <<envVars, ui, caVars, revoked, domVars, hostVars, scopeVars>>

\* removeDomain up to the await inside revokeDomainCertificate (line 159).
RemoveDomain(p, L) ==
    /\ Settled(p)
    /\ call' = [call EXCEPT ![p] =
            [op |-> "removeDomain", pc |-> "revoke", domains |-> L,
             opts |-> NoOptions, ret |-> NoReturn, err |-> "none"]]
    /\ UNCHANGED <<envVars, ui, caVars, revoked, domVars, hostVars, scopeVars>>

\* A revocation that cannot fail.
RevokeAlwaysPossible(d) == TRUE

\* openssl ca -revoke domainCertPath -keyfile caKeyPath -cert caCertPath can
\* only exit with 0 when openssl, the CA files and the certificate file exist.
RevokePossible(d) ==
    opensslInstalled /\ caKey # NoFile /\ caCert # NoFile /\ d.cert # NoFile

\* revokeDomainCertificate awaits withCertificateAuthorityCredentials
\* (certificates.ts:69).
AcquireForRevoking(p) ==
    /\ call[p].pc = "revoke"
    /\ EnterScope(p, "revoking")
    /\ UNCHANGED <<envVars, ui, caVars, revoked, domVars, hostVars>>

\* The callback of withCertificateAuthorityCredentials in
\* revokeDomainCertificate (certificates.ts:69-83): openssl ca -revoke on the
\* certificate file, which fails when the file or the CA is missing.
RevokeCertificate(p) ==
    LET d == dom[DomainPathOf(call[p].domains)]
    IN  /\ Callback(p, "revoke", "revoking")
        /\ \/ /\ RevokePossible(d)
              /\ revoked' = revoked \cup {d.cert}
              /\ Goto(p, "rimraf")
           \/ /\ Reject(p, "openssl ca -revoke")
              /\ UNCHANGED revoked
        /\ LeaveScope(p)
        /\ UNCHANGED <<envVars, ui, caVars, domVars, hostVars>>

\* A removal that deletes nothing.
RimrafKeepsFiles(P) == dom

\* rimraf.sync(pathForDomain(domainPath)), line 162: what is left of a path
\* once its directory is removed.
Rimraf(P) == [dom EXCEPT ![P] = NoDir]

\* removeDomain resumes at line 161 after the revocation.
RemoveDirectory(p) ==
    LET P == DomainPathOf(call[p].domains)
    IN  /\ call[p].pc = "rimraf"
        /\ dom' = Rimraf(P)
        /\ provisioned' = provisioned \ {P}
        /\ generateRuns' = [generateRuns EXCEPT ![P] = 0]
        /\ call' = [call EXCEPT ![p] = Resolved(call[p], NoReturn)]
        /\ UNCHANGED <<envVars, ui, caVars, revoked, keySerial, hostVars, scopeVars>>

\* uninstall(): the CA leaves every trust store, then the CA key and
\* certificate, the revocation ledger and the whole domains directory are
\* deleted.
uninstall ==
    /\ trust' = {}
    /\ caKey' = NoFile
    /\ caCert' = NoFile
    /\ caKeyReadable' = FALSE
    /\ caKeyWide' = FALSE
    /\ revoked' = {}
    /\ dom' = [P \in Paths |-> NoDir]

\* A removeAll that deletes the CA and keeps the domains directory.
RemoveCAOnly(p) ==
    /\ Settled(p)
    /\ trust' = {}
    /\ caKey' = NoFile
    /\ caCert' = NoFile
    /\ caKeyReadable' = FALSE
    /\ caKeyWide' = FALSE
    /\ revoked' = {}
    /\ call' = [call EXCEPT ![p] = [IdleCall EXCEPT !.op = "removeAll", !.pc = "resolved"]]
    /\ UNCHANGED <<envVars, ui, caSerial, domVars, hostVars, scope>>

\* removeAll (lines 165-167).
RemoveAll(p) ==
    /\ Settled(p)
    /\ uninstall
    /\ provisioned' = {}
    /\ generateRuns' = [P \in Paths |-> 0]
    /\ call' = [call EXCEPT ![p] = [IdleCall EXCEPT !.op = "removeAll", !.pc = "resolved"]]
    /\ UNCHANGED <<envVars, ui, caSerial, keySerial, hostVars, scope>>

\* parseOpenSSLExpiryData: the days from now to the notAfter date, for a
\* certificate issued for CertDays days.
ExpiryDays == {1, CertDays}

\* openssl x509 -noout -enddate on a certificate file, then
\* parseOpenSSLExpiryData: either throws, or yields the days left; they can
\* only throw when openssl or the file is missing.
ReadExpiry(file) ==
    {[threw |-> TRUE, days |-> 0]} \cup
    (IF opensslInstalled /\ file # NoFile
     THEN {[threw |-> FALSE, days |-> v] : v \in ExpiryDays}
     ELSE {})

\* A catch that returns what was parsed so far.
ZeroOnError(r) == r.days

\* The try/catch of lines 170-175 and 182-187.
CatchExpiry(r) == IF r.threw THEN Failure ELSE r.days

\* caExpiryInDays (lines 169-176).
CaExpiryInDays(p) ==
    /\ Settled(p)
    /\ \E r \in ReadExpiry(caCert) :
          call' = [call EXCEPT ![p] =
              [IdleCall EXCEPT !.op = "caExpiryInDays", !.pc = "resolved",
                               !.ret = [NoReturn EXCEPT !.days = CatchExpiry(r)]]]
    /\ UNCHANGED <<envVars, ui, caVars, revoked, domVars, hostVars, scopeVars>>

\* certificateExpiryInDays (lines 178-188).
CertificateExpiryInDays(p, name) ==
    /\ Settled(p)
    /\ \E r \in ReadExpiry(dom[DomainPathOf(<<name>>)].cert) :
          call' = [call EXCEPT ![p] =
              [IdleCall EXCEPT !.op = "certificateExpiryInDays", !.pc = "resolved",
                               !.domains = <<name>>,
                               !.ret = [NoReturn EXCEPT !.days = CatchExpiry(r)]]]
    /\ UNCHANGED <<envVars, ui, caVars, revoked, domVars, hostVars, scopeVars>>

\* ------------------------------------------------------------ specifications

\* A fresh config root on some machine: no CA, no domain directory.
Init ==
    /\ platformSupported \in BOOLEAN
    /\ opensslInstalled \in BOOLEAN
    /\ ui = "default"
    /\ caKey = NoFile
    /\ caCert = NoFile
    /\ caKeyReadable = FALSE
    /\ trust = {}
    /\ revoked = {}
    /\ dom = [P \in Paths |-> NoDir]
    /\ keySerial = 0
    /\ caSerial = 0
    /\ hosts = {}
    /\ hostsPending = {}
    /\ call = [p \in Procs |-> IdleCall]
    /\ generateRuns = [P \in Paths |-> 0]
    /\ provisioned = {}
    /\ caKeyWide = FALSE
    /\ scope = [p \in Procs |-> "out"]

\* The steps that resume a certificateFor call after an await.
Progress(p) ==
    \/ InstallTrust(p)
    \/ EnsureReadable(p)
    \/ ResumeAfterCA(p)
    \/ AcquireForSigning(p)
    \/ SignCertificate(p)
    \/ Return(p)

\* The steps that resume a removeDomain call after an await.
RemoveProgress(p) ==
    \/ AcquireForRevoking(p)
    \/ RevokeCertificate(p)
    \/ RemoveDirectory(p)

\* Requests that leave the UI hooks and the hosts file alone.
PlainOptions == {o \in Options : o.skipHostsFile /\ ~o.ui}

\* One caller, every call awaited before the next is made; the certificate
\* store under every call of the API.
Next ==
    \/ \E L \in DomainLists, o \in PlainOptions : CertificateFor(1, L, o)
    \/ \E L \in DomainLists : HasCertificateFor(1, L)
    \/ \E L \in DomainLists : RemoveDomain(1, L)
    \/ RemoveAll(1)
    \/ CaExpiryInDays(1)
    \/ \E name \in Domains : CertificateExpiryInDays(1, name)
    \/ Progress(1)
    \/ RemoveProgress(1)

Spec == Init /\ [][Next]_vars

\* Requests of several names, or of a name that is refused.
LongLists == {L \in DomainLists : Len(L) > 1 \/ ~AllAccepted(L)}

\* One caller, every call awaited; certificateFor under every option, with
\* the hosts-file tasks it leaves behind.
NextOptions ==
    \/ \E L \in LongLists, o \in Options : CertificateFor(1, L, o)
    \/ RemoveAll(1)
    \/ Progress(1)
    \/ \E d \in Domains : HostsTask(d)

OptionSpec == Init /\ [][NextOptions]_vars

\* Several callers on a machine that passes the platform and openssl checks;
\* their certificateFor calls are not awaited before the next is made.
InitConc == Init /\ platformSupported /\ opensslInstalled

\* Requests whose names are all accepted.
AcceptedLists == {L \in DomainLists : AllAccepted(L)}

NextConc ==
    \/ \E p \in Procs, L \in AcceptedLists, o \in PlainOptions : CertificateFor(p, L, o)
    \/ \E p \in Procs : Progress(p)

ConcSpec == InitConc /\ [][NextConc]_vars

\* A config root left by an earlier version: the CA is installed and trusted,
\* and its key is locked away from the current user (the case of the message
\* at lines 112-114).
InitLegacy ==
    /\ platformSupported \in BOOLEAN
    /\ opensslInstalled \in BOOLEAN
    /\ ui = "default"
    /\ caKey = 1
    /\ caCert = 1
    /\ caKeyReadable = FALSE
    /\ trust = {1}
    /\ revoked = {}
    /\ dom = [P \in Paths |-> NoDir]
    /\ keySerial = 0
    /\ caSerial = 1
    /\ hosts = {}
    /\ hostsPending = {}
    /\ call = [p \in Procs |-> IdleCall]
    /\ generateRuns = [P \in Paths |-> 0]
    /\ provisioned = {}
    /\ caKeyWide = FALSE
    /\ scope = [p \in Procs |-> "out"]

\* One caller on the legacy root, every call awaited; certificateFor under
\* every option.
LegacySpec == InitLegacy /\ [][NextOptions]_vars

\* ------------------------------------------------------------ properties

\* The calls a formula speaks of.
IsCall(c, op, pc) == c.op = op /\ c.pc = pc

\* Call p makes a step that settles it or starts it.
Steps(p) == call'[p] # call[p]

\* C1: once the certificate of a domain path has been issued, then as long as
\* the path is not removed no call changes its key, CSR or certificate or
\* runs generateDomainCertificate again, and every certificateFor that
\* resolves for the path returns that key and that certificate.
C1_CachedCertificateReused ==
    [][\A P \in Paths :
          (P \in provisioned /\ P \in provisioned') =>
              /\ dom'[P] = dom[P]
              /\ generateRuns'[P] = generateRuns[P]
              /\ \A p \in Procs :
                    (Steps(p) /\ call'[p].op = "certificateFor"
                       /\ DomainPathOf(call'[p].domains) = P)
                    => /\ keySerial' = keySerial
                       /\ call'[p].pc # "sign"
                       /\ call'[p].pc = "resolved"
                             => /\ call'[p].ret.key = dom[P].key
                                /\ call'[p].ret.cert = dom[P].cert]_vars

\* A later call for the first path has resolved with the first key, after
\* another path was provisioned with the second key.
C1_Witness ==
    \E p \in Procs, P \in Paths :
        /\ IsCall(call[p], "certificateFor", "resolved")
        /\ DomainPathOf(call[p].domains) # P
        /\ call[p].ret.key = 1 /\ call[p].ret.cert = 1
        /\ dom[P].cert = 2

\* C2: hasCertificateFor is false for every list whose path is not
\* provisioned, is true for the list of a certificateFor that has just
\* resolved, and the value a hasCertificateFor call returned says whether the
\* path is provisioned.
C2_HasAfterProvision ==
    /\ \A L \in DomainLists :
          DomainPathOf(L) \notin provisioned => ~hasCertificateFor(L)
    /\ \A p \in Procs :
          /\ IsCall(call[p], "certificateFor", "resolved")
                => hasCertificateFor(call[p].domains)
          /\ call[p].op = "hasCertificateFor"
                => /\ call[p].pc = "resolved"
                   /\ call[p].ret.has = (DomainPathOf(call[p].domains) \in provisioned)

\* A certificateFor has resolved for one list while the directory of another
\* holds a key and no certificate.
C2_Witness ==
    \E p \in Procs, L \in DomainLists :
        /\ IsCall(call[p], "certificateFor", "resolved")
        /\ hasCertificateFor(call[p].domains)
        /\ dom[DomainPathOf(L)].key # NoFile
        /\ ~hasCertificateFor(L)

\* C3: once removeDomain has returned for a list, hasCertificateFor of the
\* list is false and nothing is left of the directory of its path.
C3_RemovedDomainGone ==
    \A p \in Procs :
        IsCall(call[p], "removeDomain", "resolved")
        => /\ ~hasCertificateFor(call[p].domains)
           /\ dom[DomainPathOf(call[p].domains)] = NoDir

\* removeDomain has returned after revoking a certificate that was issued.
C3_Witness ==
    \E p \in Procs :
        /\ IsCall(call[p], "removeDomain", "resolved")
        /\ revoked # {}
        /\ dom[DomainPathOf(call[p].domains)] = NoDir

\* A name of the list is not "localhost" and fails the syntax check.
HasRefusedName(L) == \E i \in 1 .. Len(L) : L[i] # "localhost" /\ ~isValidDomain(L[i])

\* C4: a certificateFor whose list holds a refused name throws the
\* invalid-domain error at once, whatever the other names are, and leaves the
\* UI hooks, the CA, the trust stores, the domain directories and the hosts
\* file with its tasks as they were.
C4_InvalidDomainNoEffect ==
    [][\A p \in Procs :
          (Settled(p) /\ Steps(p) /\ call'[p].op = "certificateFor"
             /\ HasRefusedName(call'[p].domains))
          => /\ call'[p].pc = "rejected"
             /\ call'[p].err = "invalid domain"
             /\ UNCHANGED <<ui, caVars, domVars, hostVars, revoked>>]_vars

\* A list of a valid and a refused name was rejected on a machine that has a
\* CA, a provisioned certificate and a hosts-file entry to lose.
C4_Witness ==
    \E p \in Procs :
        /\ IsCall(call[p], "certificateFor", "rejected")
        /\ call[p].err = "invalid domain"
        /\ \E i \in 1 .. Len(call[p].domains) : DomainAccepted(call[p].domains[i])
        /\ caKey # NoFile /\ provisioned # {} /\ hosts # {}

C6_DomainCertificateGeneratedOnce ==
    /\ \A P \in Paths : (caKey # NoFile /\ caCert # NoFile) => generateRuns[P] <= 1
    /\ \A p \in Procs :
          IsCall(call[p], "certificateFor", "resolved")
          => call[p].ret.key = call[p].ret.cert

\* C7: a CA key or certificate that exists stays as it is, with no new CA
\* generated, unless removeAll deletes it; and a CA key comes to exist only
\* in the first step of a certificateFor.
C7_RootCALifecycle ==
    [][/\ caKey # NoFile
            => \/ caKey' = caKey /\ caSerial' = caSerial
               \/ /\ caKey' = NoFile
                  /\ \E p \in Procs : Steps(p) /\ call'[p].op = "removeAll"
       /\ caCert # NoFile
            => \/ caCert' = caCert
               \/ /\ caCert' = NoFile
                  /\ \E p \in Procs : Steps(p) /\ call'[p].op = "removeAll"
       /\ (caKey = NoFile /\ caKey' # NoFile)
            => \E p \in Procs :
                  Settled(p) /\ Steps(p) /\ call'[p].op = "certificateFor"]_vars

\* The CA made by the first certificateFor is still in place and trusted
\* after a certificate was provisioned, revoked and removed.
C7_Witness ==
    \E p \in Procs :
        /\ IsCall(call[p], "removeDomain", "resolved")
        /\ revoked # {}
        /\ caKey = 1 /\ caCert = 1 /\ 1 \in trust

\* C8: a certificateFor that fails on the platform check or on the openssl
\* check has changed nothing: not the UI hooks, the CA, the trust stores, the
\* domain directories or the hosts file.
C8_FailFastNoMutation ==
    [][\A p \in Procs :
          (Steps(p) /\ IsCall(call'[p], "certificateFor", "rejected")
             /\ call'[p].err \in {"platform", "no openssl"})
          => UNCHANGED <<ui, caVars, domVars, hostVars, revoked>>]_vars

\* C9: an expiry query never throws; it returns -1 or a number of days from
\* 1 to CertDays, and -1 whenever the certificate file it reads is missing
\* or openssl cannot run.
C9_ExpirySentinel ==
    \A p \in Procs :
        /\ call[p].op = "caExpiryInDays"
              => /\ call[p].pc = "resolved"
                 /\ call[p].ret.days \in {Failure} \cup (1 .. CertDays)
                 /\ (caCert = NoFile \/ ~opensslInstalled) => call[p].ret.days = Failure
        /\ call[p].op = "certificateExpiryInDays"
              => /\ call[p].pc = "resolved"
                 /\ call[p].ret.days \in {Failure} \cup (1 .. CertDays)
                 /\ (~hasCertificateFor(call[p].domains) \/ ~opensslInstalled)
                       => call[p].ret.days = Failure

\* A query has answered -1 with openssl at hand: for the CA after removeAll
\* deleted it, or for a name with no certificate while another is cached.
C9_Witness ==
    \E p \in Procs :
        /\ opensslInstalled
        /\ call[p].ret.days = Failure
        /\ \/ call[p].op = "caExpiryInDays" /\ caCert = NoFile /\ caSerial > 0
           \/ /\ call[p].op = "certificateExpiryInDays"
              /\ ~hasCertificateFor(call[p].domains)
              /\ provisioned # {}

\* M lists the names of L in some order.
Permutation(L, M) ==
    /\ Len(L) = Len(M)
    /\ \A d \in Domains :
          Cardinality({i \in 1 .. Len(L) : L[i] = d})
             = Cardinality({i \in 1 .. Len(M) : M[i] = d})

\* C10: a list and its permutations have one domain path; so when
\* certificateFor has resolved for a list, hasCertificateFor holds for every
\* permutation and the key and certificate returned are the files of the
\* permutation's path, when removeDomain has returned for a list nothing is
\* left for any permutation, and hasCertificateFor answers for a list what it
\* answers for its permutations.
C10_OrderIndependent ==
    \A L, M \in DomainLists :
        Permutation(L, M) =>
            /\ DomainPathOf(L) = DomainPathOf(M)
            /\ \A p \in Procs :
                  call[p].domains = L =>
                      /\ IsCall(call[p], "certificateFor", "resolved")
                            => /\ hasCertificateFor(M)
                               /\ call[p].ret.key = dom[DomainPathOf(M)].key
                               /\ call[p].ret.cert = dom[DomainPathOf(M)].cert
                      /\ IsCall(call[p], "removeDomain", "resolved")
                            => /\ ~hasCertificateFor(M)
                               /\ dom[DomainPathOf(M)] = NoDir
                      /\ IsCall(call[p], "hasCertificateFor", "resolved")
                            => call[p].ret.has = hasCertificateFor(M)

\* removeDomain of the names in descending order has removed a certificate
\* that hasCertificateFor then misses under the ascending order.
C10_Witness ==
    \E p \in Procs :
        /\ IsCall(call[p], "removeDomain", "resolved")
        /\ call[p].domains = <<"localhost", "a.test">>
        /\ revoked # {}
        /\ ~hasCertificateFor(<<"a.test", "localhost">>)

\* C11: a step of removeDomain changes no directory but that of its list, and
\* only when the certificate of that directory has been revoked; a
\* removeDomain whose revocation fails throws and leaves every directory and
\* the revocation ledger as they were.
C11_RevokeBeforeDelete ==
    [][\A p \in Procs :
          (Steps(p) /\ call'[p].op = "removeDomain")
          => /\ \A P \in Paths :
                   dom'[P] # dom[P]
                   => /\ P = DomainPathOf(call[p].domains)
                      /\ call[p].op = "removeDomain"
                      /\ dom[P].cert # NoFile
                      /\ dom[P].cert \in revoked
                      /\ dom'[P] = NoDir
             /\ call'[p].pc = "rejected" => (dom' = dom /\ revoked' = revoked)]_vars

\* A removeDomain has thrown on its revocation, and the certificate it was to
\* remove is still cached with its key.
C11_Witness ==
    \E p \in Procs :
        /\ IsCall(call[p], "removeDomain", "rejected")
        /\ hasCertificateFor(call[p].domains)
        /\ dom[DomainPathOf(call[p].domains)].key = dom[DomainPathOf(call[p].domains)].cert
        /\ dom[DomainPathOf(call[p].domains)].cert \notin revoked

\* C12: a step of certificateFor never touches the hosts file and never waits
\* for a hosts-file task; it starts tasks only where it passes line 125, one
\* per name and none with skipHostsFile; what it returns are the key and the
\* certificate on disk, whatever tasks are pending; and a task that finishes,
\* with or without its entry written, changes no call.
C12_HostsFireAndForget ==
    [][/\ \A p \in Procs :
             (Steps(p) /\ call'[p].op = "certificateFor")
             => /\ hosts' = hosts
                /\ hostsPending \subseteq hostsPending'
                /\ call'[p].opts.skipHostsFile => hostsPending' = hostsPending
                /\ hostsPending' # hostsPending
                      => /\ call'[p].pc \in {"resolved", "rejected"}
                         /\ hostsPending' = hostsPending \cup Range(call'[p].domains)
                /\ call'[p].pc = "resolved"
                      => /\ call'[p].ret.key = dom'[DomainPathOf(call'[p].domains)].key
                         /\ call'[p].ret.cert = dom'[DomainPathOf(call'[p].domains)].cert
                         /\ call'[p].ret.key # NoFile /\ call'[p].ret.cert # NoFile
                         /\ ~call'[p].opts.skipHostsFile
                               => Range(call'[p].domains) \subseteq hostsPending'
       /\ (hosts' # hosts \/ ~(hostsPending \subseteq hostsPending'))
             => call' = call]_vars

\* certificateFor has resolved for two names; the task of the second name has
\* finished without writing its entry while that of the first is pending.
C12_Witness ==
    \E p \in Procs :
        /\ IsCall(call[p], "certificateFor", "resolved")
        /\ Len(call[p].domains) = 2
        /\ call[p].domains[1] \in hostsPending
        /\ call[p].domains[2] \notin hostsPending
        /\ call[p].domains[2] \notin hosts

\* C13: the private key of every domain directory is owner-read-only: the
\* owner's read bit is set and no other permission bit is.
C13_KeyOwnerReadOnly ==
    \A P \in Paths :
        dom[P].key # NoFile
        => /\ ModeBit(dom[P].keyMode, 8)
           /\ \A i \in 0 .. 7 : ~ModeBit(dom[P].keyMode, i)

C15_HalfInstalledDetected ==
    [][\A p \in Procs :
          /\ (Steps(p) /\ IsCall(call'[p], "certificateFor", "rejected")
                /\ call'[p].err = "trust store")
             => /\ dom' = dom
                /\ caKey' = caKey /\ caKey # NoFile
                /\ caCert' = caCert /\ caCert # NoFile
          /\ (call'[p].op = "certificateFor"
                /\ call'[p].pc \in {"sign", "signing", "finish", "resolved"})
             => caKey' \in trust']_vars

\* C16: every certificate in a domain directory was signed by the CA whose
\* key and certificate are on disk now.
C16_SignedByCurrentCA ==
    \A P \in Paths :
        dom[P].cert # NoFile
        => /\ caKey # NoFile
           /\ dom[P].certCA = caKey
           /\ dom[P].certCA = caCert

\* A certificate signed by the second CA is cached: removeAll deleted the
\* first CA and a later certificateFor generated a new one.
C16_Witness ==
    \E p \in Procs, P \in Paths :
        /\ IsCall(call[p], "certificateFor", "resolved")
        /\ call[p].ret.certCA = 2
        /\ dom[P].cert # NoFile /\ dom[P].certCA = 2
        /\ caKey = 2 /\ caSerial = 2

\* C17: a certificateFor that comes to sign has a CA key the current user can
\* read, whatever its options; the repair leaves the key and the count of
\* generated CA keys as they were; and the repair is entered only in the first
\* step of a call, which found the key in place and so did not install.
C17_SelfHealing ==
    [][\A p \in Procs :
          /\ (call'[p].op = "certificateFor" /\ call'[p].pc \in {"sign", "signing"})
             => caKeyReadable'
          /\ (Steps(p) /\ call[p].pc = "ensure")
             => /\ caKey' = caKey /\ caSerial' = caSerial
                /\ caKeyReadable'
          /\ (Steps(p) /\ call'[p].pc = "ensure")
             => /\ Settled(p)
                /\ caKey # NoFile /\ caKey' = caKey /\ caSerial' = caSerial]_vars

\* The step leaves every domain directory but that of list L as it was.
OnlyDirectoryOf(L) == \A Q \in Paths : Q # SortList(L) => dom'[Q] = dom[Q]

\* C18: however the calls interleave, every step of a certificateFor, its
\* generateDomainCertificate included, changes files only in the directory
\* of the sorted names of its own list; so when two calls for different
\* name sets were the only ones to generate and both have resolved, each
\* directory holds the key, the CSR and the certificate of one key, the two
\* keys differ, and each call returned the files of its own directory.
C18_DistinctSetsIndependent ==
    [][/\ \A p \in Procs :
             /\ Progress(p) => OnlyDirectoryOf(call[p].domains)
             /\ \A L \in AcceptedLists, o \in PlainOptions :
                   CertificateFor(p, L, o) => OnlyDirectoryOf(L)
       /\ \A p, q \in Procs :
             (/\ IsCall(call'[p], "certificateFor", "resolved")
              /\ IsCall(call'[q], "certificateFor", "resolved")
              /\ Range(call'[p].domains) # Range(call'[q].domains)
              /\ keySerial' = 2)
             => LET A == dom'[SortList(call'[p].domains)]
                    B == dom'[SortList(call'[q].domains)]
                IN  /\ A.key # NoFile /\ A.csr = A.key /\ A.cert = A.key
                    /\ B.key # NoFile /\ B.csr = B.key /\ B.cert = B.key
                    /\ A.key # B.key
                    /\ call'[p].ret.key = A.key /\ call'[p].ret.cert = A.cert
                    /\ call'[q].ret.key = B.key /\ call'[q].ret.cert = B.cert]_vars

\* Two calls for different name sets are generating at once: the certificate
\* of one is written while the other, with its own key and CSR in its own
\* directory, is still to sign.
C18_Witness ==
    \E p, q \in Procs :
        LET A == dom[DomainPathOf(call[p].domains)]
            B == dom[DomainPathOf(call[q].domains)]
        IN  /\ call[p].pc = "finish"
            /\ call[q].pc \in {"sign", "signing"}
            /\ Range(call[p].domains) # Range(call[q].domains)
            /\ A.cert = A.key /\ A.csr = A.key /\ A.key # NoFile
            /\ B.csr = B.key /\ B.key # NoFile /\ B.cert = NoFile
            /\ A.key # B.key

\* The errors generateDomainCertificate throws.
GenerationErrors == {"mkdirp", "openssl genrsa", "openssl req", "openssl ca"}

\* C19: for awaited calls, a directory that holds a certificate holds the
\* private key the certificate was issued for; a certificateFor that returns
\* has returned that key with that certificate, and none has thrown on
\* reading a file.
C19_CertificateHasItsKey ==
    /\ \A P \in Paths :
          CertExists(P) => (dom[P].key # NoFile /\ dom[P].key = dom[P].cert)
    /\ \A p \in Procs :
          call[p].op = "certificateFor"
          => /\ call[p].err # "ENOENT"
             /\ call[p].pc = "resolved"
                   => /\ call[p].ret.key # NoFile
                      /\ call[p].ret.key = call[p].ret.cert
                      /\ call[p].ret.key = dom[DomainPathOf(call[p].domains)].key

\* A certificateFor has failed in generateDomainCertificate and left a key
\* with no certificate, while another directory holds a certificate with
\* its key.
C19_Witness ==
    \E p \in Procs, P \in Paths :
        /\ IsCall(call[p], "certificateFor", "rejected")
        /\ call[p].err \in GenerationErrors
        /\ dom[DomainPathOf(call[p].domains)].key # NoFile
        /\ ~hasCertificateFor(call[p].domains)
        /\ CertExists(P) /\ dom[P].key = dom[P].cert

\* C20: for awaited calls, a certificateFor that throws out of
\* generateDomainCertificate leaves no certificate for its list; a
\* certificateFor that passes the checks and the CA step and finds no
\* certificate runs generateDomainCertificate from its start, whatever the
\* directory holds; a run that comes to sign has written a new key and the
\* CSR of that key; and the certificate then written is that of the new key.
C20_FailedGenerationRetried ==
    [][\A p \in Procs :
          LET P == DomainPathOf(call'[p].domains)
          IN  (Steps(p) /\ call'[p].op = "certificateFor")
              => /\ (call'[p].pc = "rejected" /\ call'[p].err \in GenerationErrors
                       /\ caKey # NoFile)
                    => dom'[P].cert = NoFile
                 /\ (/\ dom[P].cert = NoFile
                     /\ \/ call[p].pc = "afterCA"
                        \/ /\ Settled(p)
                           /\ AllAccepted(call'[p].domains)
                           /\ platformSupported /\ opensslInstalled
                           /\ caKey # NoFile
                           /\ call'[p].pc # "ensure")
                    => /\ keySerial' = keySerial + 1
                       /\ call'[p].pc \in {"sign", "rejected"}
                       /\ call'[p].pc = "rejected" => call'[p].err \in GenerationErrors
                 /\ call'[p].pc = "sign"
                    => /\ keySerial' = keySerial + 1
                       /\ dom'[P].key = keySerial'
                       /\ dom'[P].csr = keySerial'
                       /\ dom'[P].cert = NoFile
                 /\ (call[p].pc = "signing" /\ call'[p].pc = "finish")
                    => (dom'[P].cert = keySerial /\ dom'[P].key = keySerial)]_vars

\* The second run of generateDomainCertificate, made after the first had
\* failed, has written its own key, CSR and certificate, which the call has
\* returned; no other directory exists.
C20_Witness ==
    \E p \in Procs :
        LET P == DomainPathOf(call[p].domains)
        IN  /\ IsCall(call[p], "certificateFor", "resolved")
            /\ keySerial = 2
            /\ caKey = 1 /\ caSerial = 1
            /\ dom[P].key = 2 /\ dom[P].csr = 2 /\ dom[P].cert = 2
            /\ call[p].ret.key = 2 /\ call[p].ret.cert = 2
            /\ \A Q \in Paths : Q # P => dom[Q] = NoDir

====
